---- MODULE Spec2Model ----
(***************************************************************************)
(* A model of the bloom_filter crate: the sequential BloomFilter, the      *)
(* write-locked WLockBloomFilter, the two counting wrappers, the hash      *)
(* strategies (One..Five, ReHasher) and the parameter calculator of lib.rs.*)
(*                                                                         *)
(* One filter object lives in the state.  A constructor action builds it;  *)
(* afterwards threads call insert and contains on it.  Every call is split *)
(* at the points where another thread can observe it: the compare-and-swap *)
(* on is_writing, each BitVec::set, the release store, the fetch_add on    *)
(* the counter and each bit read of contains.                              *)
(***************************************************************************)
EXTENDS Integers, Sequences, FiniteSets, TLC

(***************************************************************************)
(* Bounds of the model.                                                    *)
(***************************************************************************)
\* Hashable values are 0..MaxValue.
MaxValue == 1
\* At most MaxInserts insert calls are issued on a filter.
MaxInserts == 2
\* new(m, hashers) is called with m in 0..MaxM.
MaxM == 2
\* optimal_new and with_rate are called with n in 0..MaxN.
MaxN == 2
\* ReHasher::new(k) is called with k in 0..MaxK.
MaxK == 2

\* A spinning thread is watched until MaxOvertakes other insert calls have
\* taken the lock ahead of it.
MaxOvertakes == 2

\* The fuzz targets drive the shared filter from two spawned threads.
NumThreads == 2

Values == 0..MaxValue
Threads == 1..NumThreads

(***************************************************************************)
(* Digests.  A Hasher is a running state: Default gives the initial state, *)
(* Hash::hash writes the value into it, finish reads the output.  The two  *)
(* digests stand for MurmurHasher and FNV1aHasher32; their 64-bit output   *)
(* is reduced to DigestSpace values.                                       *)
(***************************************************************************)
DigestSpace == 2^8

Digests == {"Murmur", "FNV"}

\* BuildHasherDefault::build_hasher: a hasher in its default state.
BuildHasher(d) == IF d = "Murmur" THEN 0 ELSE 17

\* value.hash(&mut h): feeds the value into the running state.
HashWrite(d, s, v) ==
    IF d = "Murmur"
    THEN (s * 13 + (v + 1) * 101 + 29) % DigestSpace
    ELSE ((s + v + 1) * 59) % DigestSpace

\* h.finish(): the output of the running state (the state is kept).
Finish(d, s) == ((s \div 16) + s) % DigestSpace

(***************************************************************************)
(* Hash strategies.  A strategy is a record [kind, k]; k is the field of   *)
(* ReHasher and is 0 for the other kinds, whose k() is computed.           *)
(* hash_to_indices returns [panic, indices]: the remainder by a zero       *)
(* modulus panics.                                                         *)
(***************************************************************************)
One == [kind |-> "One", k |-> 0]
Two == [kind |-> "Two", k |-> 0]
Three == [kind |-> "Three", k |-> 0]
Four == [kind |-> "Four", k |-> 0]
Five == [kind |-> "Five", k |-> 0]
ReHasherNew(k) == [kind |-> "ReHasher", k |-> k]
\* An implementor of HashToIndices that breaks the contract of the trait:
\* its second index is not reduced below the modulus.
OutOfRange == [kind |-> "OutOfRange", k |-> 0]

Strategies == {One, Two, OutOfRange} \cup {ReHasherNew(k) : k \in 0..MaxK}

\* <ReHasher as Default>::default()
ReHasherDefault == ReHasherNew(4)

\* The strategies the crate ships.
ShippedStrategies ==
    {One, Two, Three, Four, Five, ReHasherDefault} \cup {ReHasherNew(k) : k \in 0..MaxK}

\* The digests behind the BuildHasherDefault fields of a strategy, in field
\* order: One<Murmur>, Two<Murmur, FNV>, Three<Murmur, FNV, Murmur>, ...
StrategyDigests(h) ==
    CASE h.kind = "One" -> <<"Murmur">>
      [] h.kind = "Two" -> <<"Murmur", "FNV">>
      [] h.kind = "Three" -> <<"Murmur", "FNV", "Murmur">>
      [] h.kind = "Four" -> <<"Murmur", "FNV", "Murmur", "FNV">>
      [] h.kind = "Five" -> <<"Murmur", "FNV", "Murmur", "FNV", "Murmur">>
      [] h.kind = "ReHasher" -> <<"Murmur">>
      [] h.kind = "OutOfRange" -> <<"Murmur", "FNV">>

\* K::k
StrategyK(h) ==
    CASE h.kind = "One" -> 1
      [] h.kind = "Two" -> 1 + 1
      [] h.kind = "Three" -> 1 + 1 + 1
      [] h.kind = "Four" -> 1 + 1 + 1 + 1
      [] h.kind = "Five" -> 1 + 1 + 1 + 1 + 1
      [] h.kind = "ReHasher" -> h.k
      [] h.kind = "OutOfRange" -> 2

\* One hasher of digest d fed the value once.
HashOnce(d, v) == Finish(d, HashWrite(d, BuildHasher(d), v))

\* The running state of a ReHasher after the value was written i times.
RECURSIVE ReHashState(_, _, _)
ReHashState(d, v, i) ==
    IF i = 0 THEN BuildHasher(d) ELSE HashWrite(d, ReHashState(d, v, i - 1), v)

OneIndices(v, modulus) ==
    IF modulus = 0
    THEN [panic |-> TRUE, indices |-> <<>>]
    ELSE [panic |-> FALSE, indices |-> <<HashOnce("Murmur", v) % modulus>>]

TwoIndices(v, modulus) ==
    IF modulus = 0
    THEN [panic |-> TRUE, indices |-> <<>>]
    ELSE [panic |-> FALSE,
          indices |-> <<HashOnce("Murmur", v) % modulus, HashOnce("FNV", v) % modulus>>]

ThreeIndices(v, modulus) ==
    IF modulus = 0
    THEN [panic |-> TRUE, indices |-> <<>>]
    ELSE [panic |-> FALSE,
          indices |-> <<HashOnce("Murmur", v) % modulus, HashOnce("FNV", v) % modulus,
                        HashOnce("Murmur", v) % modulus>>]

FourIndices(v, modulus) ==
    IF modulus = 0
    THEN [panic |-> TRUE, indices |-> <<>>]
    ELSE [panic |-> FALSE,
          indices |-> <<HashOnce("Murmur", v) % modulus, HashOnce("FNV", v) % modulus,
                        HashOnce("Murmur", v) % modulus, HashOnce("FNV", v) % modulus>>]

FiveIndices(v, modulus) ==
    IF modulus = 0
    THEN [panic |-> TRUE, indices |-> <<>>]
    ELSE [panic |-> FALSE,
          indices |-> <<HashOnce("Murmur", v) % modulus, HashOnce("FNV", v) % modulus,
                        HashOnce("Murmur", v) % modulus, HashOnce("FNV", v) % modulus,
                        HashOnce("Murmur", v) % modulus>>]

ReHasherIndices(k, v, modulus) ==
    IF k > 0 /\ modulus = 0
    THEN [panic |-> TRUE, indices |-> <<>>]
    ELSE [panic |-> FALSE,
          indices |-> [i \in 1..k |-> Finish("Murmur", ReHashState("Murmur", v, i)) % modulus]]

OutOfRangeIndices(v, modulus) ==
    IF modulus = 0
    THEN [panic |-> TRUE, indices |-> <<>>]
    ELSE [panic |-> FALSE,
          indices |-> <<HashOnce("Murmur", v) % modulus, modulus + (HashOnce("FNV", v) % modulus)>>]

\* HashToIndices::hash_to_indices, dispatched on the strategy.
HashToIndices(h, v, modulus) ==
    CASE h.kind = "One" -> OneIndices(v, modulus)
      [] h.kind = "Two" -> TwoIndices(v, modulus)
      [] h.kind = "Three" -> ThreeIndices(v, modulus)
      [] h.kind = "Four" -> FourIndices(v, modulus)
      [] h.kind = "Five" -> FiveIndices(v, modulus)
      [] h.kind = "ReHasher" -> ReHasherIndices(h.k, v, modulus)
      [] h.kind = "OutOfRange" -> OutOfRangeIndices(v, modulus)

(***************************************************************************)
(* The bit vector: a function from 0..nbits-1 to BOOLEAN.                  *)
(***************************************************************************)
BitVecFromElem(nbits, e) == [i \in 0..(nbits - 1) |-> e]

BitVecLen(bv) == Cardinality(DOMAIN bv)

\* BitVec::set asserts i < nbits, Index::index expects the bit to exist.
BitVecInRange(bv, i) == i < BitVecLen(bv)

\* Faulty variants of BitVec::set: the write is lost; the bit is flipped; the
\* other bits are cleared; the vector grows by one bit.
BitVecSetDrop(bv, i, x) == bv
BitVecSetToggle(bv, i, x) == [bv EXCEPT ![i] = ~@]
BitVecSetOnly(bv, i, x) == [j \in DOMAIN bv |-> IF j = i THEN x ELSE FALSE]
BitVecSetGrow(bv, i, x) == [j \in 0..BitVecLen(bv) |-> IF j = i THEN x ELSE j \in DOMAIN bv /\ bv[j]]
\* Another faulty variant: the write spills into the neighbouring bit.
BitVecSetSpill(bv, i, x) ==
    [j \in DOMAIN bv |-> IF j = i \/ j = (i + 1) % BitVecLen(bv) THEN x ELSE bv[j]]

BitVecSet(bv, i, x) == [bv EXCEPT ![i] = x]

BitVecIndex(bv, i) == bv[i]

(***************************************************************************)
(* BloomFilter::insert and BloomFilter::contains as functions of the bit   *)
(* vector: what one call does from entry to return on a filter nobody else *)
(* touches.                                                                *)
(***************************************************************************)
RECURSIVE SetEach(_, _, _)
SetEach(bv, indices, j) ==
    IF j > Len(indices)
    THEN [panic |-> FALSE, bit_vec |-> bv]
    ELSE IF ~BitVecInRange(bv, indices[j])
    THEN [panic |-> TRUE, bit_vec |-> bv]
    ELSE SetEach(BitVecSet(bv, indices[j], TRUE), indices, j + 1)

BloomFilterInsert(bv, h, v) ==
    LET r == HashToIndices(h, v, BitVecLen(bv))
    IN  IF r.panic THEN [panic |-> TRUE, bit_vec |-> bv] ELSE SetEach(bv, r.indices, 1)

RECURSIVE AllSet(_, _, _)
AllSet(bv, indices, j) ==
    IF j > Len(indices)
    THEN "true"
    ELSE IF ~BitVecInRange(bv, indices[j])
    THEN "panic"
    ELSE IF ~BitVecIndex(bv, indices[j])
    THEN "false"
    ELSE AllSet(bv, indices, j + 1)

BloomFilterContains(bv, h, v) ==
    LET r == HashToIndices(h, v, BitVecLen(bv))
    IN  IF r.panic THEN "panic" ELSE AllSet(bv, r.indices, 1)

\* The filter after the values of a list were inserted one by one.
RECURSIVE InsertEach(_, _, _)
InsertEach(bv, h, values) ==
    IF values = <<>>
    THEN [panic |-> FALSE, bit_vec |-> bv]
    ELSE LET r == BloomFilterInsert(bv, h, Head(values))
         IN  IF r.panic THEN r ELSE InsertEach(r.bit_vec, h, Tail(values))

(***************************************************************************)
(* f64 arithmetic of the parameter calculator.  A float is NaN, an         *)
(* infinity, or the rational num/den (den > 0); the inputs and the values  *)
(* of ln and powf are given to five decimal places (den = Scale).  Zero is *)
(* +0.0: the only zero divisor the calculator can produce is ln(1.0).      *)
(***************************************************************************)
Scale == 10^5

Num(v) == [c |-> "num", num |-> v, den |-> Scale]
Rat(a, b) == [c |-> "num", num |-> a, den |-> b]
NaN == [c |-> "nan", num |-> 0, den |-> 1]
Inf(sign) == [c |-> "inf", num |-> sign, den |-> 1]

Sign(i) == IF i < 0 THEN 0 - 1 ELSE 1

\* usize::MAX, reduced to the integers of the model checker.
UsizeMax == 2^30

\* i as f64
FromUsize(i) == Rat(i, 1)

\* f64::ln over the arguments the calculator meets within the bounds.
FLn(x) ==
    CASE x.c = "nan" -> NaN
      [] x.c = "inf" -> IF x.num > 0 THEN Inf(1) ELSE NaN
      [] x.c = "num" /\ x.num < 0 -> NaN
      [] x.c = "num" /\ x.num = 0 -> Inf(0 - 1)
      [] x.c = "num" /\ x.num = x.den -> Num(0)
      [] x.c = "num" /\ x.den = Scale /\ x.num = 20630 -> Num(0 - 157843)
      [] x.c = "num" /\ x.den = Scale /\ x.num = 29289 -> Num(0 - 122795)
      [] x.c = "num" /\ x.den = Scale /\ x.num = 50000 -> Num(0 - 69315)
      [] x.c = "num" /\ x.den = Scale /\ x.num = 150000 -> Num(40547)
      [] x.c = "num" /\ x.den = Scale /\ x.num = 200000 -> Num(69315)

\* 2f64.ln()
Ln2 == FLn(Num(2 * Scale))

\* (1.0 / 2f64.powf(2f64.ln())).ln() = -(ln 2)^2
LnInvTwoPowLnTwo == Num(0 - 48045)

\* p.powf(1.0 / (k as f64)); 1.0 / 0.0 is +inf.
FPowfInv(p, k) ==
    CASE p.c = "nan" -> NaN
      [] p.c = "num" /\ p.num = p.den -> p
      [] p.c = "num" /\ k = 0 ->
            IF p.num < p.den /\ p.num > 0 - p.den THEN Num(0) ELSE Inf(1)
      [] p.c = "num" /\ k = 1 -> p
      [] p.c = "num" /\ k > 1 /\ p.num < 0 -> NaN
      [] p.c = "num" /\ k > 1 /\ p.num = 0 -> p
      [] p.c = "num" /\ k = 2 /\ p.num = 50000 -> Num(70711)
      [] p.c = "num" /\ k = 3 /\ p.num = 50000 -> Num(79370)
      [] p.c = "num" /\ k = 2 /\ p.num = 200000 -> Num(141421)
      [] p.c = "num" /\ k = 3 /\ p.num = 200000 -> Num(125992)

\* 1f64 - x
FOneMinus(x) ==
    CASE x.c = "nan" -> NaN
      [] x.c = "inf" -> Inf(0 - x.num)
      [] x.c = "num" -> Rat(x.den - x.num, x.den)

\* (i as f64) * x
FIntMul(i, x) ==
    CASE x.c = "nan" -> NaN
      [] x.c = "inf" -> IF i = 0 THEN NaN ELSE x
      [] x.c = "num" -> Rat(i * x.num, x.den)

\* a / b for two floats of the same denominator, or an integer-valued b.
FDiv(a, b) ==
    CASE a.c = "nan" \/ b.c = "nan" -> NaN
      [] a.c = "inf" /\ b.c = "inf" -> NaN
      [] a.c = "inf" /\ b.c = "num" -> Inf(a.num * Sign(b.num))
      [] a.c = "num" /\ b.c = "inf" -> Num(0)
      [] a.c = "num" /\ b.c = "num" /\ b.num = 0 ->
            IF a.num = 0 THEN NaN ELSE Inf(Sign(a.num))
      [] a.c = "num" /\ b.c = "num" /\ b.num # 0 /\ a.den = b.den ->
            Rat(a.num * Sign(b.num), b.num * Sign(b.num))
      [] a.c = "num" /\ b.c = "num" /\ b.num # 0 /\ a.den # b.den ->
            Rat(a.num * b.den * Sign(b.num), a.den * b.num * Sign(b.num))

\* -x
FNeg(x) ==
    CASE x.c = "nan" -> NaN
      [] x.c = "inf" -> Inf(0 - x.num)
      [] x.c = "num" -> Rat(0 - x.num, x.den)

\* x.ceil()
FCeil(x) ==
    IF x.c = "num" THEN Rat(0 - ((0 - x.num) \div x.den), 1) ELSE x

\* x as usize: truncates toward zero and saturates; NaN becomes 0.
AsUsize(x) ==
    CASE x.c = "nan" -> 0
      [] x.c = "inf" -> IF x.num > 0 THEN UsizeMax ELSE 0
      [] x.c = "num" /\ x.num <= 0 -> 0
      [] x.c = "num" /\ x.num > 0 ->
            IF x.num \div x.den > UsizeMax THEN UsizeMax ELSE x.num \div x.den

(***************************************************************************)
(* The parameter calculator (lib.rs).                                      *)
(***************************************************************************)
\* m_from_knp(k, n, p)
MFromKNP(k, n, p) ==
    AsUsize(FNeg(FDiv(FromUsize(k * n), FLn(FOneMinus(FPowfInv(p, k))))))

\* optimal_m(n, p)
OptimalM(n, p) ==
    AsUsize(FCeil(FDiv(FIntMul(n, FLn(p)), LnInvTwoPowLnTwo)))

\* A faulty optimal_k: the quotient m / n is taken in f64, after the product.
OptimalKFloat(n, m) ==
    AsUsize(FCeil(FDiv(FIntMul(m, Ln2), FromUsize(n))))

\* optimal_k(n, m), for n > 0: the integer quotient m / n panics when n = 0.
OptimalK(n, m) ==
    AsUsize(FCeil(FIntMul(m \div n, Ln2)))

\* E.powf(-a / b) to five decimal places, for a in 1..12 (row) and b in 1..8.
ExpNegTable == <<
    <<36788, 60653, 71653, 77880, 81873, 84648, 86688, 88250>>,
    <<13534, 36788, 51342, 60653, 67032, 71653, 75148, 77880>>,
    <<4979, 22313, 36788, 47237, 54881, 60653, 65144, 68729>>,
    <<1832, 13534, 26360, 36788, 44933, 51342, 56472, 60653>>,
    <<674, 8208, 18888, 28650, 36788, 43460, 48954, 53526>>,
    <<248, 4979, 13534, 22313, 30119, 36788, 42437, 47237>>,
    <<91, 3020, 9697, 17377, 24660, 31140, 36788, 41686>>,
    <<34, 1832, 6948, 13534, 20190, 26360, 31891, 36788>>,
    <<12, 1111, 4979, 10540, 16530, 22313, 27645, 32465>>,
    <<5, 674, 3567, 8208, 13534, 18888, 23965, 28650>>,
    <<2, 409, 2556, 6393, 11080, 15988, 20775, 25284>>,
    <<1, 248, 1832, 4979, 9072, 13534, 18009, 22313>>>>

\* E.powf(x) over the arguments false_positive_rate meets within the bounds:
\* NaN, -inf, 0 and -a/b.
FExp(x) ==
    CASE x.c = "nan" -> NaN
      [] x.c = "inf" -> IF x.num > 0 THEN Inf(1) ELSE Num(0)
      [] x.c = "num" /\ x.num = 0 -> Num(Scale)
      [] x.c = "num" /\ x.num < 0 -> Num(ExpNegTable[0 - x.num][x.den])

\* a * b for two floats in 0..1 of denominator Scale, rounded down.
FMul(a, b) ==
    CASE a.c = "nan" \/ b.c = "nan" -> NaN
      [] OTHER -> Num(((a.num \div 1000) * b.num) \div 100 + ((a.num % 1000) * b.num) \div Scale)

\* x.powi(i): the product of i factors x; powi(x, 0) is 1.0 for every x.
RECURSIVE FPowi(_, _)
FPowi(x, i) ==
    IF i = 0 THEN Num(Scale)
    ELSE IF i = 1 THEN x
    ELSE FMul(x, FPowi(x, i - 1))

\* a <= b on floats of denominator Scale; a comparison with NaN is false.
FLeq(a, b) == a.c = "num" /\ b.c = "num" /\ a.num <= b.num

\* false_positive_rate(k, n, m)
FalsePositiveRate(kk, n, m) ==
    LET x == FDiv(Rat(0 - (kk * n), 1), FromUsize(m))
        e == FExp(x)
    IN  FPowi(FOneMinus(e), kk)

\* The target rates the constructors are called with: -0.5, 0, 0.5, 1, 2.
Rates == {Num(0 - 50000), Num(0), Num(50000), Num(100000), Num(200000)}

(***************************************************************************)
(* Constructors.  A constructor ends in a filter ([ok |-> TRUE, ...]) or   *)
(* in a failure: the division by zero of optimal_k, or an allocation of    *)
(* usize::MAX bits.                                                        *)
(***************************************************************************)
VariantNames ==
    {"BloomFilter", "CountingBloomFilter", "WLockBloomFilter", "CountingWLockBloomFilter"}

IsWLock(var) == var \in {"WLockBloomFilter", "CountingWLockBloomFilter"}
IsCounting(var) == var \in {"CountingBloomFilter", "CountingWLockBloomFilter"}

NoFilter == [ok |-> FALSE, bit_vec |-> <<>>, k |-> One]

\* A faulty allocation: BitVec::from_elem(m, true).
AllocateSet(m, hashers) ==
    IF m >= UsizeMax
    THEN NoFilter
    ELSE [ok |-> TRUE, bit_vec |-> BitVecFromElem(m, TRUE), k |-> hashers]

\* BitVec::from_elem(m, false) inside a constructor's struct literal.
Allocate(m, hashers) ==
    IF m >= UsizeMax
    THEN NoFilter
    ELSE [ok |-> TRUE, bit_vec |-> BitVecFromElem(m, FALSE), k |-> hashers]

\* BloomFilter::new(m, hashers)
FilterNew(m, hashers) == Allocate(m, hashers)

\* BloomFilter::optimal_new(n, p)
FilterOptimalNew(n, p) ==
    LET m == OptimalM(n, p)
    IN  IF n = 0 \/ m >= UsizeMax
        THEN NoFilter
        ELSE Allocate(m, ReHasherNew(OptimalK(n, m)))

\* BloomFilter::with_rate(n, p, hashers)
FilterWithRate(n, p, hashers) == Allocate(MFromKNP(StrategyK(hashers), n, p), hashers)

\* WLockBloomFilter::new(m, hashers)
WLockFilterNew(m, hashers) == Allocate(m, hashers)

\* A faulty WLockBloomFilter::optimal_new: the arguments of optimal_k are
\* swapped.
WLockFilterOptimalNewSwapped(n, p) ==
    LET m == OptimalM(n, p)
    IN  IF m = 0 \/ m >= UsizeMax
        THEN NoFilter
        ELSE Allocate(m, ReHasherNew(OptimalK(m, n)))

\* WLockBloomFilter::optimal_new(n, p)
WLockFilterOptimalNew(n, p) ==
    LET m == OptimalM(n, p)
    IN  IF n = 0 \/ m >= UsizeMax
        THEN NoFilter
        ELSE Allocate(m, ReHasherNew(OptimalK(n, m)))

\* WLockBloomFilter::with_rate(n, p, hashers)
WLockFilterWithRate(n, p, hashers) == Allocate(MFromKNP(StrategyK(hashers), n, p), hashers)

(***************************************************************************)
(* State.                                                                  *)
(***************************************************************************)
VARIABLES
    phase,       \* "start", "constructed", "failed" (the constructor did not
                 \* return) or "dropped" (the filter was dropped, its storage freed)
    variant,     \* which of the four filter types was constructed
    ctor,        \* the constructor call that built the filter, kept until its first use
    bit_vec,     \* the backing bit vector
    k,           \* the hash strategy (field k)
    is_writing,  \* the spinlock of the WLock filters
    count,       \* the insertion counter of the counting filters
    th,          \* per thread: the call it is executing and where it is in it
    hist,        \* per thread: the values of the insert calls it has issued
    strategy,    \* a hash strategy that is called on its own
    hasher,      \* its BuildHasherDefault fields: the default state each one builds
    hcall,       \* per thread: the hash_to_indices call it is executing on strategy
    first,       \* the first result a hash_to_indices call on strategy returned
    overtaken,   \* per thread: how often the lock was taken by another thread
                 \* since this thread entered the insert call it is spinning in
    calc         \* the last two calls of optimal_k and what they returned

\* The state of a hash strategy called on its own.
hvars == <<strategy, hasher, hcall, first>>

\* The state of the filter and of the threads that call it.
fvars == <<phase, variant, ctor, bit_vec, k, is_writing, count, th, hist>>

vars == <<phase, variant, ctor, bit_vec, k, is_writing, count, th, hist, hvars, overtaken, calc>>

NoCtor == [name |-> "none", m |-> 0, n |-> 0, p |-> Num(0), hashers |-> One]

Idle == [pc |-> "idle", op |-> "none", v |-> 0, indices |-> <<>>, idx |-> 0,
         res |-> FALSE, known |-> FALSE, block |-> <<>>]

\* No call of optimal_k has been made.
NoCall == [set |-> FALSE, panic |-> FALSE, n |-> 0, m |-> 0, k |-> 0]

NoCalls == [last |-> NoCall, prev |-> NoCall]

\* A thread outside hash_to_indices.
HIdle == [pc |-> "idle", v |-> 0, modulus |-> 0, i |-> 0, h |-> 0, out |-> <<>>]

NoResult == [set |-> FALSE, v |-> 0, modulus |-> 0, indices |-> <<>>]

\* The fields of a strategy as Default::default() builds them.
DefaultHashers(h) ==
    [i \in 1..Len(StrategyDigests(h)) |-> BuildHasher(StrategyDigests(h)[i])]

\* num_bits()
num_bits == BitVecLen(bit_vec)

\* false_positive_chance() of the counting filters
FalsePositiveChance == FalsePositiveRate(StrategyK(k), count, num_bits)

\* The insert calls that have returned, as values.
Returned(t) ==
    IF th[t].op = "insert" THEN SubSeq(hist[t], 1, Len(hist[t]) - 1) ELSE hist[t]

ReturnedValues == UNION {{Returned(t)[i] : i \in 1..Len(Returned(t))} : t \in Threads}

Issued == Len(hist[1]) + Len(hist[2])

Init ==
    /\ phase = "start"
    /\ variant = "none"
    /\ ctor = NoCtor
    /\ bit_vec = <<>>
    /\ k = One
    /\ is_writing = FALSE
    /\ count = 0
    /\ th = [t \in Threads |-> Idle]
    /\ hist = [t \in Threads |-> <<>>]
    /\ strategy = One
    /\ hasher = DefaultHashers(One)
    /\ hcall = [t \in Threads |-> HIdle]
    /\ first = NoResult
    /\ overtaken = [t \in Threads |-> 0]
    /\ calc = NoCalls

\* What every constructor does with the filter it has built (or failed to).
Construct(var, call, f) ==
    /\ phase = "start"
    /\ phase' = IF f.ok THEN "constructed" ELSE "failed"
    /\ variant' = var
    /\ ctor' = call
    /\ bit_vec' = f.bit_vec
    /\ k' = f.k
    /\ is_writing' = FALSE
    /\ count' = 0
    /\ UNCHANGED <<hvars, overtaken, calc, th, hist>>

\* new of the four filters: the counting ones wrap the filter they delegate to.
New(var, m, hashers) ==
    Construct(var, [NoCtor EXCEPT !.name = "new", !.m = m, !.hashers = hashers],
              IF IsWLock(var) THEN WLockFilterNew(m, hashers) ELSE FilterNew(m, hashers))

\* optimal_new of the four filters.
OptimalNew(var, n, p) ==
    Construct(var, [NoCtor EXCEPT !.name = "optimal_new", !.n = n, !.p = p],
              IF IsWLock(var) THEN WLockFilterOptimalNew(n, p) ELSE FilterOptimalNew(n, p))

\* with_rate of the four filters.
WithRate(var, n, p, hashers) ==
    Construct(var, [NoCtor EXCEPT !.name = "with_rate", !.n = n, !.p = p, !.hashers = hashers],
              IF IsWLock(var) THEN WLockFilterWithRate(n, p, hashers)
              ELSE FilterWithRate(n, p, hashers))

(***************************************************************************)
(* insert.  A sequential filter is owned by thread 1 and insert borrows it *)
(* exclusively; a WLock filter is shared by all threads.                   *)
(***************************************************************************)
MayCall(t) ==
    /\ phase = "constructed"
    /\ th[t].pc = "idle"
    /\ IsWLock(variant) \/ t = 1

\* A faulty entry into insert: the first index is left out.
AfterHashSkipFirst(v, h) ==
    IF h.panic
    THEN [Idle EXCEPT !.pc = "panicked", !.op = "insert", !.v = v]
    ELSE IF ~IsWLock(variant) /\ Len(h.indices) <= 1
    THEN Idle
    ELSE [Idle EXCEPT !.pc = IF IsWLock(variant) THEN "acquire" ELSE "set",
                      !.op = "insert", !.v = v,
                      !.indices = IF h.indices = <<>> THEN <<>> ELSE Tail(h.indices),
                      !.idx = 1]

\* The state of a thread that enters insert with the indices computed.
AfterHash(v, h) ==
    IF h.panic
    THEN [Idle EXCEPT !.pc = "panicked", !.op = "insert", !.v = v]
    ELSE [Idle EXCEPT !.pc = IF IsWLock(variant) THEN "acquire"
                             ELSE IF h.indices = <<>> THEN "idle" ELSE "set",
                      !.op = IF ~IsWLock(variant) /\ h.indices = <<>> THEN "none" ELSE "insert",
                      !.v = IF ~IsWLock(variant) /\ h.indices = <<>> THEN 0 ELSE v,
                      !.indices = IF ~IsWLock(variant) /\ h.indices = <<>> THEN <<>> ELSE h.indices,
                      !.idx = IF ~IsWLock(variant) /\ h.indices = <<>> THEN 0 ELSE 1]

\* A faulty counting insert: a value that was inserted before is not counted.
InsertCallDedup(t, v) ==
    /\ MayCall(t)
    /\ Issued < MaxInserts
    /\ hist' = [hist EXCEPT ![t] = Append(@, v)]
    /\ count' = IF variant = "CountingBloomFilter" /\ ~\E i \in DOMAIN hist[t] : hist[t][i] = v
                THEN count + 1 ELSE count
    /\ th' = [th EXCEPT ![t] = AfterHash(v, HashToIndices(k, v, num_bits))]
    /\ ctor' = NoCtor
    /\ UNCHANGED <<hvars, overtaken, calc, phase, variant, bit_vec, k, is_writing>>

\* A faulty counting insert: the counting wrappers count and do not delegate.
InsertCallCountOnly(t, v) ==
    /\ MayCall(t)
    /\ Issued < MaxInserts
    /\ hist' = [hist EXCEPT ![t] = Append(@, v)]
    /\ count' = IF IsCounting(variant) THEN count + 1 ELSE count
    /\ th' = [th EXCEPT ![t] = IF IsCounting(variant)
                               THEN Idle
                               ELSE AfterHash(v, HashToIndices(k, v, num_bits))]
    /\ ctor' = NoCtor
    /\ UNCHANGED <<hvars, overtaken, calc, phase, variant, bit_vec, k, is_writing>>

\* A faulty counting insert: both counting wrappers count on entry.
InsertCallCountFirst(t, v) ==
    /\ MayCall(t)
    /\ Issued < MaxInserts
    /\ hist' = [hist EXCEPT ![t] = Append(@, v)]
    /\ count' = IF IsCounting(variant) THEN count + 1 ELSE count
    /\ th' = [th EXCEPT ![t] = AfterHash(v, HashToIndices(k, v, num_bits))]
    /\ ctor' = NoCtor
    /\ UNCHANGED <<hvars, overtaken, calc, phase, variant, bit_vec, k, is_writing>>

\* insert is entered: CountingBloomFilter counts first, then the indices are hashed.
InsertCall(t, v) ==
    /\ MayCall(t)
    /\ Issued < MaxInserts
    /\ hist' = [hist EXCEPT ![t] = Append(@, v)]
    /\ count' = IF variant = "CountingBloomFilter" THEN count + 1 ELSE count
    /\ th' = [th EXCEPT ![t] = AfterHash(v, HashToIndices(k, v, num_bits))]
    /\ ctor' = NoCtor
    /\ UNCHANGED <<hvars, overtaken, calc, phase, variant, bit_vec, k, is_writing>>

\* A faulty acquisition: the flag is set without being compared.
AcquireBlind(t) ==
    /\ th[t].pc = "acquire"
    /\ is_writing' = TRUE
    /\ th' = [th EXCEPT ![t].pc = IF th[t].indices = <<>> THEN "release" ELSE "set"]
    /\ UNCHANGED <<hvars, overtaken, calc, phase, variant, ctor, bit_vec, k, count, hist>>

\* A faulty critical section: the lock is released before the bits are set.
AcquireThenRelease(t) ==
    /\ th[t].pc = "acquire"
    /\ is_writing = FALSE
    /\ is_writing' = TRUE
    /\ th' = [th EXCEPT ![t].pc = "release"]
    /\ UNCHANGED <<hvars, overtaken, calc, phase, variant, ctor, bit_vec, k, count, hist>>

\* compare_and_swap(false, true) finds the lock free.
Acquire(t) ==
    /\ th[t].pc = "acquire"
    /\ is_writing = FALSE
    /\ is_writing' = TRUE
    /\ th' = [th EXCEPT ![t].pc = IF th[t].indices = <<>> THEN "release" ELSE "set"]
    /\ UNCHANGED <<hvars, overtaken, calc, phase, variant, ctor, bit_vec, k, count, hist>>

\* compare_and_swap(false, true) finds the lock taken: the loop body runs.
AcquireFail(t) ==
    /\ th[t].pc = "acquire"
    /\ is_writing = TRUE
    /\ th' = [th EXCEPT ![t].pc = "yield"]
    /\ UNCHANGED <<hvars, overtaken, calc, phase, variant, ctor, bit_vec, k, is_writing, count, hist>>

\* std::thread::yield_now() returns and the loop tries again.
YieldNow(t) ==
    /\ th[t].pc = "yield"
    /\ th' = [th EXCEPT ![t].pc = "acquire"]
    /\ UNCHANGED <<hvars, overtaken, calc, phase, variant, ctor, bit_vec, k, is_writing, count, hist>>

\* The thread after its last bit is set.
AfterLastSet(t) ==
    IF IsWLock(variant) THEN [th[t] EXCEPT !.pc = "release"] ELSE Idle

\* One round of for_each: bit_vec.set(i, true), which panics out of range.
SetBit(t) ==
    /\ th[t].pc = "set"
    /\ LET i == th[t].indices[th[t].idx]
       IN  IF BitVecInRange(bit_vec, i)
           THEN /\ bit_vec' = BitVecSet(bit_vec, i, TRUE)
                /\ th' = [th EXCEPT ![t] =
                            IF th[t].idx = Len(th[t].indices)
                            THEN AfterLastSet(t)
                            ELSE [th[t] EXCEPT !.idx = @ + 1]]
           ELSE /\ bit_vec' = bit_vec
                /\ th' = [th EXCEPT ![t].pc = "panicked"]
    /\ UNCHANGED <<hvars, overtaken, calc, phase, variant, ctor, k, is_writing, count, hist>>

\* is_writing.store(false): the lock is released and WLockBloomFilter::insert returns.
Release(t) ==
    /\ th[t].pc = "release"
    /\ is_writing' = FALSE
    /\ th' = [th EXCEPT ![t] =
                IF IsCounting(variant) THEN [th[t] EXCEPT !.pc = "count"] ELSE Idle]
    /\ UNCHANGED <<hvars, overtaken, calc, phase, variant, ctor, bit_vec, k, count, hist>>

\* A faulty count: the counter is stored from the thread's own tally of inserts.
FetchAddStale(t) ==
    /\ th[t].pc = "count"
    /\ count' = Len(hist[t])
    /\ th' = [th EXCEPT ![t] = Idle]
    /\ UNCHANGED <<hvars, overtaken, calc, phase, variant, ctor, bit_vec, k, is_writing, hist>>

\* count.fetch_add(1) of CountingWLockBloomFilter::insert, which then returns.
FetchAdd(t) ==
    /\ th[t].pc = "count"
    /\ count' = count + 1
    /\ th' = [th EXCEPT ![t] = Idle]
    /\ UNCHANGED <<hvars, overtaken, calc, phase, variant, ctor, bit_vec, k, is_writing, hist>>

(***************************************************************************)
(* contains.                                                               *)
(***************************************************************************)
\* The state of a thread that enters contains with the indices computed.
AfterHashContains(v, h, known) ==
    IF h.panic
    THEN [Idle EXCEPT !.pc = "panicked", !.op = "contains", !.v = v, !.known = known]
    ELSE IF h.indices = <<>>
    THEN [Idle EXCEPT !.pc = "cret", !.op = "contains", !.v = v, !.res = TRUE,
                      !.known = known]
    ELSE [Idle EXCEPT !.pc = "read", !.op = "contains", !.v = v,
                      !.indices = h.indices, !.idx = 1, !.known = known]

ContainsCall(t, v) ==
    /\ MayCall(t)
    /\ th' = [th EXCEPT ![t] =
                AfterHashContains(v, HashToIndices(k, v, num_bits), v \in ReturnedValues)]
    /\ ctor' = NoCtor
    /\ UNCHANGED <<hvars, overtaken, calc, phase, variant, bit_vec, k, is_writing, count, hist>>

\* A faulty contains: any() in place of all().
ReadBitAny(t) ==
    /\ th[t].pc = "read"
    /\ LET i == th[t].indices[th[t].idx]
       IN  th' = [th EXCEPT ![t] =
                    IF ~BitVecInRange(bit_vec, i)
                    THEN [th[t] EXCEPT !.pc = "panicked"]
                    ELSE IF BitVecIndex(bit_vec, i)
                    THEN [th[t] EXCEPT !.pc = "cret", !.res = TRUE]
                    ELSE IF th[t].idx = Len(th[t].indices)
                    THEN [th[t] EXCEPT !.pc = "cret", !.res = FALSE]
                    ELSE [th[t] EXCEPT !.idx = @ + 1]]
    /\ UNCHANGED <<hvars, overtaken, calc, phase, variant, ctor, bit_vec, k, is_writing, count, hist>>

\* A faulty contains: a bit is read only while the spinlock is free.
ReadBitUnlocked(t) ==
    /\ th[t].pc = "read"
    /\ is_writing = FALSE
    /\ LET i == th[t].indices[th[t].idx]
       IN  th' = [th EXCEPT ![t] =
                    IF ~BitVecInRange(bit_vec, i)
                    THEN [th[t] EXCEPT !.pc = "panicked"]
                    ELSE IF ~BitVecIndex(bit_vec, i)
                    THEN [th[t] EXCEPT !.pc = "cret", !.res = FALSE]
                    ELSE IF th[t].idx = Len(th[t].indices)
                    THEN [th[t] EXCEPT !.pc = "cret", !.res = TRUE]
                    ELSE [th[t] EXCEPT !.idx = @ + 1]]
    /\ UNCHANGED <<hvars, overtaken, calc, phase, variant, ctor, bit_vec, k, is_writing, count, hist>>

\* One round of all(): bit_vec[i], which panics out of range; all() stops at
\* the first bit that is false.
ReadBit(t) ==
    /\ th[t].pc = "read"
    /\ LET i == th[t].indices[th[t].idx]
       IN  th' = [th EXCEPT ![t] =
                    IF ~BitVecInRange(bit_vec, i)
                    THEN [th[t] EXCEPT !.pc = "panicked"]
                    ELSE IF ~BitVecIndex(bit_vec, i)
                    THEN [th[t] EXCEPT !.pc = "cret", !.res = FALSE]
                    ELSE IF th[t].idx = Len(th[t].indices)
                    THEN [th[t] EXCEPT !.pc = "cret", !.res = TRUE]
                    ELSE [th[t] EXCEPT !.idx = @ + 1]]
    /\ UNCHANGED <<hvars, overtaken, calc, phase, variant, ctor, bit_vec, k, is_writing, count, hist>>

\* A faulty contains: it ends with the release store of insert.
ContainsReturnRelease(t) ==
    /\ th[t].pc = "cret"
    /\ is_writing' = FALSE
    /\ th' = [th EXCEPT ![t] = Idle]
    /\ UNCHANGED <<hvars, overtaken, calc, phase, variant, ctor, bit_vec, k, count, hist>>

\* contains has returned res; the caller goes on.
ContainsReturn(t) ==
    /\ th[t].pc = "cret"
    /\ th' = [th EXCEPT ![t] = Idle]
    /\ UNCHANGED <<hvars, overtaken, calc, phase, variant, ctor, bit_vec, k, is_writing, count, hist>>

(***************************************************************************)
(* Handles.  A sequential filter is owned by thread 1; a WLock filter is   *)
(* shared, every thread holding one reference-counted handle to it.  A     *)
(* thread gives up its handle when it is done, or when it unwinds from a   *)
(* panic; it cannot while it is inside a call, which borrows the handle.   *)
(* When the last handle goes, Drop::drop frees the bit vector.             *)
(***************************************************************************)
Holders == IF IsWLock(variant) THEN Threads ELSE {1}

\* A faulty drop: the storage is freed with every handle, as if each handle
\* owned the raw pointer.
DropHandleFreeing(t) ==
    /\ phase = "constructed"
    /\ t \in Holders
    /\ th[t].pc \in {"idle", "panicked"}
    /\ th' = [th EXCEPT ![t].pc = "dropped"]
    /\ phase' = "dropped"
    /\ ctor' = NoCtor
    /\ UNCHANGED <<hvars, overtaken, calc, variant, bit_vec, k, is_writing, count, hist>>

\* A handle is dropped; the drop of the last one runs Drop::drop of the filter.
\* A thread that unwinds keeps the record of the call that panicked.
DropHandle(t) ==
    /\ phase = "constructed"
    /\ t \in Holders
    /\ th[t].pc \in {"idle", "panicked"}
    /\ th' = [th EXCEPT ![t].pc = "dropped"]
    /\ phase' = IF \A u \in Holders \ {t} : th[u].pc = "dropped" THEN "dropped" ELSE phase
    /\ ctor' = NoCtor
    /\ UNCHANGED <<hvars, overtaken, calc, variant, bit_vec, k, is_writing, count, hist>>

\* The constructor calls within the bounds.
ConstructorCall ==
    /\ phase = "start"
    /\ \/ \E var \in VariantNames, m \in 0..MaxM, h \in Strategies : New(var, m, h)
       \/ \E var \in VariantNames, n \in 0..MaxN, p \in Rates : OptimalNew(var, n, p)
       \/ \E var \in VariantNames, n \in 0..MaxN, p \in Rates, h \in Strategies :
             WithRate(var, n, p, h)

Next ==
    \/ ConstructorCall
    \/ \E t \in Threads, v \in Values : InsertCall(t, v)
    \/ \E t \in Threads : Acquire(t)
    \/ \E t \in Threads : AcquireFail(t)
    \/ \E t \in Threads : YieldNow(t)
    \/ \E t \in Threads : SetBit(t)
    \/ \E t \in Threads : Release(t)
    \/ \E t \in Threads : FetchAdd(t)
    \/ \E t \in Threads, v \in Values : ContainsCall(t, v)
    \/ \E t \in Threads : ReadBit(t)
    \/ \E t \in Threads : ContainsReturn(t)
    \/ \E t \in Threads : DropHandle(t)

Spec == Init /\ [][Next]_vars

\* A step of thread t inside insert.
ThreadStep(t) ==
    \/ Acquire(t)
    \/ AcquireFail(t)
    \/ YieldNow(t)
    \/ SetBit(t)
    \/ Release(t)
    \/ FetchAdd(t)

\* Fair scheduling: a spawned thread that can take a step of its insert call
\* is eventually run.  Nothing obliges a caller to issue a call.
FairSpec == Init /\ [][Next]_vars /\ \A t \in Threads : WF_vars(ThreadStep(t))

(***************************************************************************)
(* Threads that insert without end.  One shared WLockBloomFilter is built  *)
(* and every thread calls insert on it again and again; the calls are not  *)
(* recorded in hist.  overtaken[t] counts the compare-and-swaps other      *)
(* threads have won since t entered the call it is in.                     *)
(***************************************************************************)
SpinNew == \E m \in 0..MaxM, h \in Strategies : New("WLockBloomFilter", m, h)

\* insert is entered once more.
SpinInsertCall(t, v) ==
    /\ MayCall(t)
    /\ th' = [th EXCEPT ![t] = AfterHash(v, HashToIndices(k, v, num_bits))]
    /\ ctor' = NoCtor
    /\ overtaken' = [overtaken EXCEPT ![t] = 0]
    /\ UNCHANGED <<hvars, calc, phase, variant, bit_vec, k, is_writing, count, hist>>

\* The threads that are in the loop of insert, waiting for the lock.
Spinning == {t \in Threads : th[t].op = "insert" /\ th[t].pc \in {"acquire", "yield"}}

\* A fair lock in place of the compare-and-swap: a thread takes the lock
\* only if no other spinning thread has been passed over more often.
SpinAcquireInTurn(t) ==
    /\ th[t].pc = "acquire"
    /\ is_writing = FALSE
    /\ \A u \in Spinning : overtaken[u] <= overtaken[t]
    /\ is_writing' = TRUE
    /\ th' = [th EXCEPT ![t].pc = IF th[t].indices = <<>> THEN "release" ELSE "set"]
    /\ overtaken' = [u \in Threads |->
                        IF u \in Spinning \ {t} /\ overtaken[u] < MaxOvertakes
                        THEN overtaken[u] + 1 ELSE overtaken[u]]
    /\ UNCHANGED <<hvars, calc, phase, variant, ctor, bit_vec, k, count, hist>>

\* compare_and_swap(false, true) finds the lock free: every other spinning
\* thread has been overtaken once more.
SpinAcquire(t) ==
    /\ th[t].pc = "acquire"
    /\ is_writing = FALSE
    /\ is_writing' = TRUE
    /\ th' = [th EXCEPT ![t].pc = IF th[t].indices = <<>> THEN "release" ELSE "set"]
    /\ overtaken' = [u \in Threads |->
                        IF u \in Spinning \ {t} /\ overtaken[u] < MaxOvertakes
                        THEN overtaken[u] + 1 ELSE overtaken[u]]
    /\ UNCHANGED <<hvars, calc, phase, variant, ctor, bit_vec, k, count, hist>>

SpinNext ==
    \/ SpinNew
    \/ \E t \in Threads, v \in Values : SpinInsertCall(t, v)
    \/ \E t \in Threads : SpinAcquire(t)
    \/ \E t \in Threads : AcquireFail(t)
    \/ \E t \in Threads : YieldNow(t)
    \/ \E t \in Threads : SetBit(t)
    \/ \E t \in Threads : Release(t)

SpinSpec == Init /\ [][SpinNext]_vars

(***************************************************************************)
(* BitVec::set as the read-modify-write it is: the storage block that      *)
(* holds the bit is loaded, the flag is or-ed in, the block is stored.     *)
(* Every filter within the bounds fits in one block, so the block is the   *)
(* whole bit vector.  The rest of insert is as in Spec.                    *)
(***************************************************************************)
\* self.storage[w] is loaded; an index out of range fails the assertion.
BlockLoad(t) ==
    /\ th[t].pc = "set"
    /\ th' = [th EXCEPT ![t] =
                IF BitVecInRange(bit_vec, th[t].indices[th[t].idx])
                THEN [th[t] EXCEPT !.pc = "store", !.block = bit_vec]
                ELSE [th[t] EXCEPT !.pc = "panicked"]]
    /\ UNCHANGED <<hvars, overtaken, calc, phase, variant, ctor, bit_vec, k, is_writing, count, hist>>

\* self.storage[w] = val: the loaded block, with the flag, is stored.
BlockStore(t) ==
    /\ th[t].pc = "store"
    /\ bit_vec' = BitVecSet(th[t].block, th[t].indices[th[t].idx], TRUE)
    /\ th' = [th EXCEPT ![t] =
                IF th[t].idx = Len(th[t].indices)
                THEN [AfterLastSet(t) EXCEPT !.block = <<>>]
                ELSE [th[t] EXCEPT !.pc = "set", !.idx = @ + 1, !.block = <<>>]]
    /\ UNCHANGED <<hvars, overtaken, calc, phase, variant, ctor, k, is_writing, count, hist>>

BlockNext ==
    \/ SpinNew
    \/ \E t \in Threads, v \in Values : InsertCall(t, v)
    \/ \E t \in Threads : Acquire(t)
    \/ \E t \in Threads : AcquireFail(t)
    \/ \E t \in Threads : YieldNow(t)
    \/ \E t \in Threads : BlockLoad(t)
    \/ \E t \in Threads : BlockStore(t)
    \/ \E t \in Threads : Release(t)

BlockSpec == Init /\ [][BlockNext]_vars

(***************************************************************************)
(* The parameter calculator called on its own: optimal_k(n, m) with n and  *)
(* m small, and with the values of the tests of lib.rs.                    *)
(***************************************************************************)
CalcNs == (0..MaxN) \cup {2000}

CalcMs == (0..(MaxM * MaxN + 1)) \cup {28000, 28756, 29999}

\* optimal_k(n, m) is called: m / n on usize panics when n is 0.
CalcOptimalK(n, m) ==
    /\ calc' = [last |-> IF n = 0
                         THEN [set |-> TRUE, panic |-> TRUE, n |-> n, m |-> m, k |-> 0]
                         ELSE [set |-> TRUE, panic |-> FALSE, n |-> n, m |-> m,
                               k |-> OptimalK(n, m)],
                prev |-> calc.last]
    /\ UNCHANGED <<fvars, hvars, overtaken>>

CalcNext == \E n \in CalcNs, m \in CalcMs : CalcOptimalK(n, m)

CalcSpec == Init /\ [][CalcNext]_vars

(***************************************************************************)
(* A hash strategy called on its own.  Two threads call hash_to_indices on *)
(* one strategy through &self; a call is split at each index it produces.  *)
(* The local hasher h is built from a field of the strategy; the field     *)
(* itself is never written.                                                *)
(***************************************************************************)
HashInit ==
    /\ phase = "start"
    /\ variant = "none"
    /\ ctor = NoCtor
    /\ bit_vec = <<>>
    /\ k = One
    /\ is_writing = FALSE
    /\ count = 0
    /\ th = [t \in Threads |-> Idle]
    /\ hist = [t \in Threads |-> <<>>]
    /\ strategy \in ShippedStrategies
    /\ hasher = DefaultHashers(strategy)
    /\ hcall = [t \in Threads |-> HIdle]
    /\ first = NoResult
    /\ overtaken = [t \in Threads |-> 0]
    /\ calc = NoCalls

\* The number of indices a call produces: one per field, or the k rounds of
\* the ReHasher.
Rounds(h) == IF h.kind = "ReHasher" THEN h.k ELSE Len(StrategyDigests(h))

\* A faulty entry: the ReHasher seeds its hasher with k.
HashCallSeeded(t, v, modulus) ==
    /\ hcall[t].pc = "idle"
    /\ hcall' = [hcall EXCEPT ![t] =
                    [pc |-> IF Rounds(strategy) = 0 THEN "done" ELSE "round",
                     v |-> v, modulus |-> modulus, i |-> 1,
                     h |-> IF strategy.kind = "ReHasher"
                           THEN (hasher[1] + strategy.k) % DigestSpace ELSE 0,
                     out |-> <<>>]]
    /\ UNCHANGED <<fvars, overtaken, calc, strategy, hasher, first>>

\* hash_to_indices(value, modulus) is entered.  The ReHasher builds its one
\* hasher here; (0..0).map(..).collect() is an empty vector.
HashCall(t, v, modulus) ==
    /\ hcall[t].pc = "idle"
    /\ hcall' = [hcall EXCEPT ![t] =
                    [pc |-> IF Rounds(strategy) = 0 THEN "done" ELSE "round",
                     v |-> v, modulus |-> modulus, i |-> 1,
                     h |-> IF strategy.kind = "ReHasher" THEN hasher[1] ELSE 0,
                     out |-> <<>>]]
    /\ UNCHANGED <<fvars, overtaken, calc, strategy, hasher, first>>

\* A faulty round: the output of the hasher is not reduced by the modulus.
HashRoundNoModulus(t) ==
    /\ hcall[t].pc = "round"
    /\ LET c == hcall[t]
           d == IF strategy.kind = "ReHasher" THEN StrategyDigests(strategy)[1]
                ELSE StrategyDigests(strategy)[c.i]
           s0 == IF strategy.kind = "ReHasher" THEN c.h ELSE hasher[c.i]
           s1 == HashWrite(d, s0, c.v)
       IN  hcall' = [hcall EXCEPT ![t] =
                        IF c.modulus = 0
                        THEN [c EXCEPT !.pc = "panicked", !.h = s1]
                        ELSE [c EXCEPT !.pc = IF c.i = Rounds(strategy) THEN "done" ELSE "round",
                                       !.h = s1,
                                       !.out = Append(c.out, Finish(d, s1)),
                                       !.i = c.i + 1]]
    /\ UNCHANGED <<fvars, overtaken, calc, strategy, hasher, first>>

\* A faulty round: the strategy keeps the hasher in its field, so the next
\* call starts from the state this one left.
HashRoundKeep(t) ==
    /\ hcall[t].pc = "round"
    /\ LET c == hcall[t]
           f == IF strategy.kind = "ReHasher" THEN 1 ELSE c.i
           d == StrategyDigests(strategy)[f]
           s0 == IF strategy.kind = "ReHasher" THEN c.h ELSE hasher[c.i]
           s1 == HashWrite(d, s0, c.v)
       IN  /\ hcall' = [hcall EXCEPT ![t] =
                          IF c.modulus = 0
                          THEN [c EXCEPT !.pc = "panicked", !.h = s1]
                          ELSE [c EXCEPT !.pc = IF c.i = Rounds(strategy) THEN "done" ELSE "round",
                                         !.h = s1,
                                         !.out = Append(c.out, Finish(d, s1) % c.modulus),
                                         !.i = c.i + 1]]
           /\ hasher' = [hasher EXCEPT ![f] = s1]
    /\ UNCHANGED <<fvars, overtaken, calc, strategy, first>>

\* One index.  One..Five build the hasher of field i and hash the value into
\* it; the ReHasher hashes the value into its running hasher again.  The
\* index is finish() % modulus, which panics on a zero modulus.
HashRound(t) ==
    /\ hcall[t].pc = "round"
    /\ LET c == hcall[t]
           d == IF strategy.kind = "ReHasher" THEN StrategyDigests(strategy)[1]
                ELSE StrategyDigests(strategy)[c.i]
           s0 == IF strategy.kind = "ReHasher" THEN c.h ELSE hasher[c.i]
           s1 == HashWrite(d, s0, c.v)
       IN  hcall' = [hcall EXCEPT ![t] =
                        IF c.modulus = 0
                        THEN [c EXCEPT !.pc = "panicked", !.h = s1]
                        ELSE [c EXCEPT !.pc = IF c.i = Rounds(strategy) THEN "done" ELSE "round",
                                       !.h = s1,
                                       !.out = Append(c.out, Finish(d, s1) % c.modulus),
                                       !.i = c.i + 1]]
    /\ UNCHANGED <<fvars, overtaken, calc, strategy, hasher, first>>

\* The vector is returned and the local hasher is dropped.
HashReturn(t) ==
    /\ hcall[t].pc = "done"
    /\ first' = IF first.set THEN first
                ELSE [set |-> TRUE, v |-> hcall[t].v, modulus |-> hcall[t].modulus,
                      indices |-> hcall[t].out]
    /\ hcall' = [hcall EXCEPT ![t] = HIdle]
    /\ UNCHANGED <<fvars, overtaken, calc, strategy, hasher>>

HashNext ==
    \/ \E t \in Threads, v \in Values, modulus \in 0..MaxM : HashCall(t, v, modulus)
    \/ \E t \in Threads : HashRound(t)
    \/ \E t \in Threads : HashReturn(t)

HashSpec == HashInit /\ [][HashNext]_vars

(***************************************************************************)
(* Properties.                                                             *)
(***************************************************************************)
Quiescent == \A t \in Threads : th[t].op # "insert"

\* No thread is inside a call.  Every bit vector and history the inserts can
\* leave behind occur in such a state: a contains call and the drop of a
\* handle change neither (C18), so the comparisons of whole bit vectors are
\* made in these states.
AtRest == \A t \in Threads : th[t].pc \in {"idle", "dropped"} /\ th[t].op = "none"

InCriticalSection(t) == th[t].pc \in {"set", "release"}

AllIssued == hist[1] \o hist[2]

\* The orderings of a list.
Orderings(values) ==
    LET n == Len(values)
    IN  {[i \in 1..n |-> values[f[i]]] :
            f \in {g \in [1..n -> 1..n] : \A i, j \in 1..n : g[i] = g[j] => i = j}}

EmptyBits == BitVecFromElem(num_bits, FALSE)

\* C1: on a sequential filter, a contains(v) that is called after insert(v)
\* has returned does not panic and returns true, whatever was inserted since.
C1_NoFalseNegatives ==
    ~IsWLock(variant) =>
        \A t \in Threads :
            (th[t].op = "contains" /\ th[t].known) =>
                /\ th[t].pc # "panicked"
                /\ th[t].pc = "cret" => th[t].res

\* A sequential contains(v) has returned true after insert(v) and a later
\* insert of another value.
C1_Witness ==
    /\ ~IsWLock(variant)
    /\ Len(hist[1]) = 2
    /\ hist[1][1] # hist[1][2]
    /\ th[1].pc = "cret" /\ th[1].known /\ th[1].res
    /\ th[1].v = hist[1][1]
    /\ th[1].indices # <<>>

\* C2: on a shared WLock filter, a contains(v) that starts after an insert(v)
\* has returned on some thread does not panic and returns true, whatever the
\* other threads are doing.
C2_NoFalseNegativesAfterReturn ==
    IsWLock(variant) =>
        \A t \in Threads :
            (th[t].op = "contains" /\ th[t].known) =>
                /\ th[t].pc # "panicked"
                /\ th[t].pc = "cret" => th[t].res

\* contains(v) has returned true on one thread for a value another thread
\* inserted, while that other thread is in the middle of a further insert.
C2_Witness ==
    /\ IsWLock(variant)
    /\ th[2].pc = "cret" /\ th[2].known /\ th[2].res /\ th[2].indices # <<>>
    /\ Len(hist[1]) = 2 /\ hist[1][1] = th[2].v /\ hist[1][2] # th[2].v
    /\ hist[2] = <<>>
    /\ th[1].pc = "set"

\* C3: on a WLock filter at most one thread is between its successful
\* compare-and-swap and its release store, and while one is, is_writing is
\* true: the bits are written only by the holder of the lock.
C3_MutualExclusion ==
    IsWLock(variant) =>
        \A t \in Threads :
            InCriticalSection(t) =>
                /\ is_writing
                /\ \A u \in Threads \ {t} : ~InCriticalSection(u)

\* One thread is setting bits while the other has lost the compare-and-swap.
C3_Witness ==
    /\ IsWLock(variant)
    /\ th[1].pc = "set"
    /\ th[2].pc = "yield"

\* C4: once every insert on a WLock filter has returned (no thread is inside
\* a call), its bit vector is the
\* one of a sequential filter of the same size and strategy into which all the
\* values were inserted one by one, and contains agrees on every value.
C4_SetUnionEquivalence ==
    (IsWLock(variant) /\ phase = "constructed" /\ AtRest) =>
        LET ref == InsertEach(EmptyBits, k, AllIssued)
        IN  /\ ~ref.panic
            /\ bit_vec = ref.bit_vec
            /\ \A v \in Values :
                  BloomFilterContains(bit_vec, k, v) = BloomFilterContains(ref.bit_vec, k, v)

\* Two threads have each inserted a different value and returned, and two
\* different bits are set.
C4_Witness ==
    /\ IsWLock(variant) /\ phase = "constructed" /\ AtRest
    /\ Len(hist[1]) = 1 /\ Len(hist[2]) = 1
    /\ hist[1] # hist[2]
    /\ \E i, j \in DOMAIN bit_vec : i # j /\ bit_vec[i] /\ bit_vec[j]

\* C5: once every insert on a WLock filter has returned (no thread is inside
\* a call), its bit vector is the
\* one every serial ordering of those inserts produces, and when the threads
\* inserted the same list it is the one that list produces when inserted once.
C5_SerialOrderings ==
    (IsWLock(variant) /\ phase = "constructed" /\ AtRest) =>
        /\ \A o \in Orderings(AllIssued) :
              LET ref == InsertEach(EmptyBits, k, o)
              IN  ~ref.panic /\ bit_vec = ref.bit_vec
        /\ hist[1] = hist[2] =>
              LET once == InsertEach(EmptyBits, k, hist[1])
              IN  ~once.panic /\ bit_vec = once.bit_vec

\* Both threads have inserted the same value and returned.
C5_Witness ==
    /\ IsWLock(variant) /\ phase = "constructed" /\ AtRest
    /\ hist[1] = hist[2]
    /\ hist[1] # <<>>
    /\ \E i \in DOMAIN bit_vec : bit_vec[i]

\* C6: no step of any filter variant clears a bit: a bit that is true before
\* a step is true after it.
C6_BitMonotonicity ==
    [][\A i \in DOMAIN bit_vec : bit_vec[i] => (i \in DOMAIN bit_vec' /\ bit_vec'[i])]_vars

\* A second insert has written into a filter that already had a bit set by
\* the first.
C6_Witness ==
    /\ phase = "constructed"
    /\ Issued = 2
    /\ Quiescent
    /\ \E i, j \in DOMAIN bit_vec : i # j /\ bit_vec[i] /\ bit_vec[j]
    /\ \E t \in Threads : th[t].pc = "cret"

\* C7: after construction no step changes num_bits() or k().
C7_FixedParameters ==
    [][phase = "constructed" =>
          /\ BitVecLen(bit_vec') = BitVecLen(bit_vec)
          /\ StrategyK(k') = StrategyK(k)]_vars

\* A filter of two hashes has taken inserts and lookups and is being written.
C7_Witness ==
    /\ phase = "constructed"
    /\ num_bits = 2 /\ StrategyK(k) = 2
    /\ Issued = 2
    /\ \E t \in Threads : th[t].pc = "set" /\ th[t].idx = 2
    /\ \E i \in DOMAIN bit_vec : bit_vec[i]

\* C8: every filter a constructor returns has a bit vector of positive length.
C8_PositiveSize == phase = "constructed" => num_bits > 0

\* The rate or the element count of the constructor call is degenerate.
Degenerate(call) ==
    \/ call.n = 0
    \/ call.p.num <= 0
    \/ call.p.num >= call.p.den

\* C9: optimal_new and with_rate called with p <= 0, p >= 1 or n = 0 fail:
\* no filter is returned.
C9_DegenerateRejected ==
    (ctor.name \in {"optimal_new", "with_rate"} /\ Degenerate(ctor)) => phase = "failed"

\* C10: a call whose strategy returned an index >= m does not return normally
\* and does not get past the bit it cannot address.
C10_OutOfRangeFailsLoudly ==
    \A t \in Threads :
        (\E j \in DOMAIN th[t].indices : th[t].indices[j] >= num_bits) =>
            th[t].pc \notin {"cret", "release", "count"}

\* The indices of a value as a set (empty when hash_to_indices panics).
IndexSet(h, v, modulus) ==
    LET r == HashToIndices(h, v, modulus)
    IN  {r.indices[j] : j \in DOMAIN r.indices}

\* The values of all insert calls issued so far.
IssuedValues == {AllIssued[i] : i \in DOMAIN AllIssued}

\* Every index of v is an index of some inserted value.
Covered(v) ==
    IndexSet(k, v, num_bits) \subseteq UNION {IndexSet(k, w, num_bits) : w \in IssuedValues}

\* C11: on a quiescent filter contains(v) is true exactly when every index of
\* v is an index of some inserted value: both for contains evaluated on the
\* bit vector the inserts have left (whenever no thread is inside a call),
\* and for a contains call that ran while no other thread had ever inserted.
C11_ContainsCharacterisation ==
    (phase = "constructed" /\ Quiescent) =>
        /\ AtRest => \A v \in Values :
              LET r == BloomFilterContains(bit_vec, k, v)
              IN  r # "panic" => ((r = "true") <=> Covered(v))
        /\ \A t \in Threads :
              (th[t].pc = "cret" /\ \A u \in Threads \ {t} : hist[u] = <<>>) =>
                  (th[t].res <=> Covered(th[t].v))

\* A false positive: contains has returned true for a value that was never
\* inserted and has two indices, both set by the insert of another value.
C11_Witness ==
    /\ phase = "constructed" /\ Quiescent
    /\ th[1].pc = "cret" /\ th[1].res
    /\ th[1].v \notin IssuedValues
    /\ Cardinality(IndexSet(k, th[1].v, num_bits)) = 2
    /\ hist[2] = <<>>

\* C12: a step changes a bit only by setting it, only as part of an insert of
\* the stepping thread and only at an index of the inserted value; and when
\* an insert returns every index of its value is set.
C12_InsertEffect ==
    [][/\ \A i \in DOMAIN bit_vec :
             (i \in DOMAIN bit_vec' /\ bit_vec'[i] # bit_vec[i]) =>
                 /\ bit_vec'[i]
                 /\ \E t \in Threads :
                       /\ th[t].op = "insert" /\ th'[t] # th[t]
                       /\ i \in IndexSet(k, th[t].v, num_bits)
       /\ \A t \in Threads :
             (th[t].op = "insert" /\ th'[t].op # "insert") =>
                 \A i \in IndexSet(k, th[t].v, num_bits) :
                     i \in DOMAIN bit_vec' /\ bit_vec'[i]]_vars

\* One insert of a value with two indices has returned: two bits are set and
\* a third is still clear.
C12_Witness ==
    /\ phase = "constructed" /\ Quiescent
    /\ Issued = 1
    /\ Cardinality({i \in DOMAIN bit_vec : bit_vec[i]}) = 2
    /\ \E i \in DOMAIN bit_vec : ~bit_vec[i]

\* A list without its repeated values (the first occurrence is kept).
RECURSIVE Dedup(_)
Dedup(values) ==
    IF values = <<>>
    THEN <<>>
    ELSE LET d == Dedup(SubSeq(values, 1, Len(values) - 1))
             l == values[Len(values)]
         IN  IF \E i \in DOMAIN d : d[i] = l THEN d ELSE Append(d, l)

\* Two bit vectors on which contains answers alike for every value.
SameAnswers(bv1, bv2) ==
    \A v \in Values : BloomFilterContains(bv1, k, v) = BloomFilterContains(bv2, k, v)

\* C13: on a non-counting filter the bit vector left by the issued inserts is
\* the one left by inserting each distinct value once, and from every bit
\* vector the inserts can leave insert(a), insert(b), insert(a) leaves the
\* same bit vector and the same contains answers as insert(a), insert(b), for
\* all a and b (b = a is the consecutive case).
C13_Idempotence ==
    (phase = "constructed" /\ ~IsCounting(variant) /\ Quiescent) =>
        /\ LET once == InsertEach(EmptyBits, k, Dedup(AllIssued))
           IN  ~once.panic /\ bit_vec = once.bit_vec
        /\ AtRest => \A a, b \in Values :
              LET once == InsertEach(bit_vec, k, <<a, b>>)
                  twice == InsertEach(bit_vec, k, <<a, b, a>>)
              IN  ~once.panic =>
                      /\ ~twice.panic
                      /\ twice.bit_vec = once.bit_vec
                      /\ SameAnswers(twice.bit_vec, once.bit_vec)

\* The same value has been inserted twice into a non-counting filter that
\* still has a clear bit.
C13_Witness ==
    /\ phase = "constructed" /\ ~IsCounting(variant) /\ Quiescent
    /\ Issued = 2 /\ AllIssued[1] = AllIssued[2]
    /\ \E i \in DOMAIN bit_vec : bit_vec[i]
    /\ \E i \in DOMAIN bit_vec : ~bit_vec[i]

\* C14: whenever no thread is inside a call, the bit vector the issued
\* inserts have left is the one every ordering of them leaves, on every
\* variant; and from it insert(a), insert(b) and insert(b), insert(a) leave
\* the same bit vector, for all a and b.
C14_Commutativity ==
    (phase = "constructed" /\ AtRest) =>
        /\ \A o \in Orderings(AllIssued) :
              LET ref == InsertEach(EmptyBits, k, o)
              IN  ~ref.panic /\ bit_vec = ref.bit_vec
        /\ \A a, b \in Values :
              LET ab == InsertEach(bit_vec, k, <<a, b>>)
                  ba == InsertEach(bit_vec, k, <<b, a>>)
              IN  ~ab.panic => (~ba.panic /\ ab.bit_vec = ba.bit_vec)

\* A sequential filter has taken two different values that set different bits.
C14_Witness ==
    /\ phase = "constructed" /\ ~IsWLock(variant) /\ Quiescent
    /\ Len(hist[1]) = 2 /\ hist[1][1] # hist[1][2]
    /\ IndexSet(k, hist[1][1], num_bits) # IndexSet(k, hist[1][2], num_bits)
    /\ th[1].pc = "idle"

\* C15: the counter of a counting filter is 0 when the constructor returns,
\* never decreases, and equals the number of insert calls, repeated values
\* included, whenever all of them have returned.
C15_InsertionCounter ==
    [][/\ (phase = "start" /\ phase' = "constructed") => count' = 0
       /\ phase = "constructed" => count' >= count
       /\ (phase' = "constructed" /\ IsCounting(variant') /\ Quiescent') =>
              count' = Issued']_vars

\* A sequential counting filter has taken the same value twice and counts 2.
C15_Witness ==
    /\ phase = "constructed" /\ variant = "CountingBloomFilter" /\ Quiescent
    /\ Len(hist[1]) = 2 /\ hist[1][1] = hist[1][2]
    /\ count = 2

\* C16: on a shared CountingWLockBloomFilter the counter equals the number of
\* insert calls whenever all of them have returned, under every interleaving;
\* the step that increments it is taken by a thread outside the critical
\* section and leaves is_writing as it is.
C16_NoLostCounterUpdates ==
    [][/\ (phase' = "constructed" /\ variant' = "CountingWLockBloomFilter" /\ Quiescent') =>
              count' = Issued'
       /\ (variant = "CountingWLockBloomFilter" /\ count' # count) =>
              /\ is_writing' = is_writing
              /\ \E t \in Threads :
                    th[t].pc = "count" /\ th'[t] # th[t] /\ ~InCriticalSection(t)]_vars

\* Both threads have inserted into the shared counting filter and it counts 2.
C16_Witness ==
    /\ phase = "constructed" /\ variant = "CountingWLockBloomFilter" /\ Quiescent
    /\ Len(hist[1]) = 1 /\ Len(hist[2]) = 1
    /\ count = 2

\* The insert calls of a thread whose inner insert has returned.
InnerDone(t) ==
    IF th[t].op = "insert" /\ th[t].pc # "count" THEN Len(hist[t]) - 1 ELSE Len(hist[t])

\* C17: in both counting wrappers the counter never exceeds the number of
\* insert calls whose inner insert has returned: the bits are written first,
\* the counter is incremented after.
C17_InsertThenCount ==
    (phase = "constructed" /\ IsCounting(variant)) =>
        count <= InnerDone(1) + InnerDone(2)

\* C18: a step of a contains call leaves the bit vector, its length, the
\* strategy, is_writing and the counter unchanged, on every variant.
C18_ContainsReadOnly ==
    [][\A t \in Threads :
          (th'[t] # th[t] /\ (th[t].op = "contains" \/ th'[t].op = "contains")) =>
              /\ bit_vec' = bit_vec
              /\ k' = k
              /\ is_writing' = is_writing
              /\ count' = count]_vars

\* contains has returned on one thread of a counting filter while the other
\* thread holds the lock and has set a bit.
C18_Witness ==
    /\ variant = "CountingWLockBloomFilter"
    /\ th[1].op = "contains" /\ th[1].pc = "cret"
    /\ is_writing /\ th[2].pc = "release"
    /\ count = 1
    /\ \E i \in DOMAIN bit_vec : bit_vec[i]

\* C19: once its inserts have returned, a counting filter has the bit vector,
\* the length, the k and the contains answers of a plain BloomFilter of the
\* same m and strategy into which the same values were inserted.
C19_CountingTransparent ==
    (phase = "constructed" /\ IsCounting(variant) /\ Quiescent) =>
        LET plain == InsertEach(FilterNew(num_bits, k).bit_vec, FilterNew(num_bits, k).k, AllIssued)
        IN  /\ ~plain.panic
            /\ bit_vec = plain.bit_vec
            /\ num_bits = BitVecLen(plain.bit_vec)
            /\ StrategyK(k) = StrategyK(FilterNew(num_bits, k).k)
            /\ AtRest => SameAnswers(bit_vec, plain.bit_vec)
            /\ \A t \in Threads :
                  (th[t].pc = "cret" /\ \A u \in Threads \ {t} : hist[u] = <<>>) =>
                      th[t].res = (BloomFilterContains(plain.bit_vec, k, th[t].v) = "true")

\* A counting filter has taken two different values and has answered a
\* contains call with true.
C19_Witness ==
    /\ phase = "constructed" /\ IsCounting(variant) /\ Quiescent
    /\ Len(hist[1]) = 2 /\ hist[1][1] # hist[1][2] /\ hist[2] = <<>>
    /\ count = 2
    /\ th[1].pc = "cret" /\ th[1].res /\ th[1].indices # <<>>

\* Every handle to the filter has been dropped.
AllHandlesDropped == \A t \in Holders : th[t].pc = "dropped"

\* C20: the storage of a WLock filter comes into being only by a constructor
\* step from the start; it is freed by the step that drops the last handle,
\* and by no other; once it is freed no thread is inside a call, so nothing
\* reads or writes it, and no further step frees it again.
C20_StorageLifetime ==
    [][IsWLock(variant') =>
          /\ (phase' = "constructed" /\ phase # "constructed") => phase = "start"
          /\ (phase' = "dropped" /\ phase # "dropped") =>
                 /\ phase = "constructed"
                 /\ ~AllHandlesDropped
                 /\ \E t \in Threads : th[t].pc # "dropped" /\ th'[t].pc = "dropped"
          /\ AllHandlesDropped' <=> (phase' = "dropped")
          /\ phase' = "dropped" => \A t \in Threads : th'[t].pc = "dropped"
          /\ phase = "dropped" => (phase' = "dropped" /\ bit_vec' = bit_vec /\ th' = th)]_vars

\* Both threads have inserted into the shared filter and dropped their
\* handles: the storage has been freed.
C20_Witness ==
    /\ IsWLock(variant) /\ phase = "dropped"
    /\ Len(hist[1]) = 1 /\ Len(hist[2]) = 1
    /\ \E i \in DOMAIN bit_vec : bit_vec[i]

(***************************************************************************)
(* contains and the spinlock.                                              *)
(***************************************************************************)
\* Some other thread holds the spinlock: it is inside the critical section of
\* insert, or it panicked there and the flag was never cleared.
LockHeldByOther(t) ==
    /\ is_writing
    /\ \E u \in Threads \ {t} :
          th[u].op = "insert" /\ th[u].pc \in {"set", "release", "panicked", "dropped"}

\* C21: contains takes no lock.  On a shared filter a contains call that is
\* reading always has its next read available and a contains call that has
\* its answer can always return, whatever the spinlock flag holds; the call
\* reads at most k bits, so it is over after k + 1 steps of its own.
C21_ContainsTakesNoLock ==
    \A t \in Threads :
        (IsWLock(variant) /\ phase = "constructed" /\ th[t].op = "contains") =>
            /\ th[t].pc = "read" =>
                  /\ ENABLED ReadBit(t)
                  /\ th[t].idx \in 1..Len(th[t].indices)
                  /\ Len(th[t].indices) = StrategyK(k)
            /\ th[t].pc = "cret" => ENABLED ContainsReturn(t)
            /\ th[t].pc \in {"read", "cret", "panicked", "dropped"}

\* A contains call has its answer after reading every one of its bits while
\* another thread, panicked inside the critical section, holds the lock for
\* ever.
C21_Witness ==
    \E t \in Threads :
        /\ IsWLock(variant)
        /\ th[t].op = "contains"
        /\ th[t].pc = "cret"
        /\ th[t].indices # <<>>
        /\ LockHeldByOther(t)
        /\ \E u \in Threads \ {t} : th[u].pc = "panicked"

\* C22: the false-negative window.  On a shared filter contains(v) can
\* answer false while insert(v) is in flight (C22_Witness), and only then:
\* the read that finds a bit of v false is made while no insert(v) has
\* returned.
C22_FalseNegativeWindow ==
    [][\A t \in Threads :
          (/\ IsWLock(variant)
           /\ th[t].pc = "read"
           /\ th'[t].pc = "cret"
           /\ ~th'[t].res) => th[t].v \notin ReturnedValues]_vars

\* Thread u is inside insert(v): it holds the lock and has set the first of
\* two indices.  Thread t called contains(v), read that first bit as set and
\* the second as clear, and has the answer false.
C22_Witness ==
    \E t, u \in Threads :
        /\ IsWLock(variant)
        /\ t # u
        /\ th[u].op = "insert" /\ th[u].pc = "set" /\ th[u].idx = 2
        /\ th[t].op = "contains" /\ th[t].pc = "cret" /\ th[t].idx = 2
        /\ th[t].v = th[u].v
        /\ ~th[t].res
        /\ th[t].indices = th[u].indices
        /\ BitVecInRange(bit_vec, th[u].indices[1])
        /\ BitVecInRange(bit_vec, th[u].indices[2])
        /\ th[t].v \notin ReturnedValues

(***************************************************************************)
(* Properties of the hash strategies (HashSpec).                           *)
(***************************************************************************)
\* A strategy of the same type and k as the one under call, constructed on
\* its own.
SameStrategy ==
    IF strategy.kind = "ReHasher" THEN ReHasherNew(StrategyK(strategy))
    ELSE CHOOSE h \in {One, Two, Three, Four, Five} : h.kind = strategy.kind

\* C23: for every shipped strategy, every value and every modulus above
\* zero, hash_to_indices returns exactly k() indices, each in 0..modulus-1.
C23_IndexShape ==
    \A t \in Threads :
        (hcall[t].pc = "done" /\ hcall[t].modulus > 0) =>
            /\ Len(hcall[t].out) = StrategyK(strategy)
            /\ \A j \in 1..Len(hcall[t].out) : hcall[t].out[j] \in 0..(hcall[t].modulus - 1)

\* Five has returned its five indices for a modulus of two or more.
C23_Witness ==
    \E t \in Threads :
        /\ strategy = Five
        /\ hcall[t].pc = "done"
        /\ hcall[t].modulus >= 2
        /\ Len(hcall[t].out) = 5

\* C24: a call returns the sequence the first call with an equal value and
\* modulus returned, whatever was hashed in between or is being hashed by
\* the other thread, and the sequence a strategy of the same type and k
\* constructed on its own computes.
C24_Determinism ==
    \A t \in Threads :
        hcall[t].pc = "done" =>
            /\ (first.set /\ first.v = hcall[t].v /\ first.modulus = hcall[t].modulus) =>
                  hcall[t].out = first.indices
            /\ hcall[t].out = HashToIndices(SameStrategy, hcall[t].v, hcall[t].modulus).indices

\* A chained strategy of two rounds or more has finished a later call with
\* the value and modulus of the first call that returned, while the other
\* thread is in the middle of hashing another value.
C24_Witness ==
    \E t, u \in Threads :
        /\ t # u
        /\ strategy.kind = "ReHasher" /\ strategy.k >= 2
        /\ hcall[t].pc = "done"
        /\ hcall[t].modulus >= 2
        /\ first.set /\ first.v = hcall[t].v /\ first.modulus = hcall[t].modulus
        /\ hcall[u].pc = "round" /\ hcall[u].i = 2 /\ hcall[u].v # hcall[t].v

(***************************************************************************)
(* Termination of insert (FairSpec).                                       *)
(***************************************************************************)
\* C25: on a shared filter, under fair scheduling, every insert call
\* eventually returns, and when every insert call has returned the spinlock
\* is free.
C25_Termination ==
    /\ \A t \in Threads :
          (IsWLock(variant) /\ th[t].op = "insert") ~> (th[t].op # "insert")
    /\ []((IsWLock(variant) /\ Quiescent) => ~is_writing)

(***************************************************************************)
(* The spinlock gives no turn to a waiting thread (SpinSpec).              *)
(***************************************************************************)
\* C26: the spinlock has no fairness.  A thread at the compare-and-swap wins
\* exactly when the flag is false, however often the threads spinning
\* beside it have been passed over; and a spinning thread leaves the loop
\* only by winning: a lost attempt is followed by a yield and another
\* attempt, without a bound.  With the other threads inserting again and
\* again, a spinning thread is overtaken any number of times (C26_Witness).
C26_NoFairness ==
    /\ [](\A t \in Threads :
            (th[t].op = "insert" /\ th[t].pc = "acquire") =>
                (ENABLED SpinAcquire(t) <=> ~is_writing))
    /\ [][\A t \in Spinning :
            \/ th'[t] = th[t]
            \/ th[t].pc = "acquire" /\ is_writing /\ th'[t] = [th[t] EXCEPT !.pc = "yield"]
            \/ th[t].pc = "yield" /\ th'[t] = [th[t] EXCEPT !.pc = "acquire"]
            \/ /\ th[t].pc = "acquire" /\ ~is_writing /\ is_writing'
               /\ th'[t] = [th[t] EXCEPT !.pc = IF th[t].indices = <<>> THEN "release" ELSE "set"]]_vars

\* A thread is still spinning in one insert call after MaxOvertakes insert
\* calls of the other thread have taken the lock ahead of it, and the lock
\* is taken again.
C26_Witness ==
    \E t, u \in Threads :
        /\ t # u
        /\ t \in Spinning
        /\ th[t].pc = "yield"
        /\ overtaken[t] = MaxOvertakes
        /\ InCriticalSection(u)
        /\ th[u].op = "insert"
        /\ num_bits > 0
        /\ k \in ShippedStrategies

(***************************************************************************)
(* The false-positive estimate of the counting filters.                    *)
(***************************************************************************)
\* C27: false_positive_chance() of a counting filter is 0 before any insert
\* and never decreases from one insert to the next.
C27_MonotonicEstimate ==
    /\ []((IsCounting(variant) /\ phase = "constructed" /\ count = 0) =>
            FalsePositiveChance = Num(0))
    /\ [][(IsCounting(variant) /\ phase = "constructed" /\ count' # count) =>
            FLeq(FalsePositiveChance, FalsePositiveChance')]_vars

(***************************************************************************)
(* Constructors.                                                           *)
(***************************************************************************)
\* The filter has just been returned by the constructor call ctor.
JustBuilt == phase = "constructed" /\ ctor.name # "none"

\* C28: the constructors agree across the four filters.  optimal_new(n, p)
\* returns m = optimal_m(n, p) bits and a ReHasher of k = optimal_k(n, m);
\* with_rate(n, p, strategy) returns m = m_from_knp(strategy.k(), n, p) bits
\* and the strategy it was given, whichever filter is constructed.
C28_ConstructorsAgree ==
    JustBuilt =>
        /\ ctor.name = "optimal_new" =>
              /\ num_bits = OptimalM(ctor.n, ctor.p)
              /\ k = ReHasherNew(OptimalK(ctor.n, num_bits))
        /\ ctor.name = "with_rate" =>
              /\ num_bits = MFromKNP(StrategyK(ctor.hashers), ctor.n, ctor.p)
              /\ k = ctor.hashers

\* A concurrent counting filter built by optimal_new with two hash rounds.
C28_Witness ==
    /\ JustBuilt
    /\ variant = "CountingWLockBloomFilter"
    /\ ctor.name = "optimal_new"
    /\ num_bits = 2
    /\ StrategyK(k) = 2

\* C29: right after any constructor returns, every bit of the bit vector is
\* false (all m of them, for new(m, ..)), the spinlock is free and the
\* insertion counter is 0.
C29_InitialState ==
    JustBuilt =>
        /\ DOMAIN bit_vec = 0..(num_bits - 1)
        /\ \A i \in DOMAIN bit_vec : bit_vec[i] = FALSE
        /\ ctor.name = "new" => num_bits = ctor.m
        /\ is_writing = FALSE
        /\ count = 0

\* A concurrent counting filter of two bits or more has just been built.
C29_Witness ==
    /\ JustBuilt
    /\ variant = "CountingWLockBloomFilter"
    /\ num_bits >= 2

(***************************************************************************)
(* The critical section of insert.                                         *)
(***************************************************************************)
\* Thread t is in the lock part of an insert call on a shared filter.
InLockPart(t) ==
    /\ IsWLock(variant)
    /\ th[t].op = "insert"
    /\ th[t].pc \in {"acquire", "yield", "set", "release"}

\* Every index of thread t is set.
OwnBitsSet(t) ==
    \A j \in 1..Len(th[t].indices) :
        BitVecInRange(bit_vec, th[t].indices[j]) /\ BitVecIndex(bit_vec, th[t].indices[j])

\* C30: the critical section of insert holds the bit writes and nothing
\* else.  A thread has all its indices computed before its first attempt on
\* the lock and keeps them to the end of the call; while it holds the lock
\* its steps are the writes of its own indices, in order, and then the
\* release; the lock is released only when all of them are set.
C30_CriticalSectionScope ==
    /\ [](\A t \in Threads :
            InLockPart(t) =>
                /\ th[t].indices = HashToIndices(k, th[t].v, num_bits).indices
                /\ th[t].pc = "release" => OwnBitsSet(t))
    /\ [][\A t \in Threads :
            (InLockPart(t) /\ InCriticalSection(t)) =>
                /\ th'[t].op = "insert" =>
                      th'[t].indices = th[t].indices /\ th'[t].v = th[t].v
                /\ bit_vec' # bit_vec =>
                      /\ th[t].pc = "set"
                      /\ bit_vec' = [bit_vec EXCEPT ![th[t].indices[th[t].idx]] = TRUE]
                      /\ th'[t].pc = "release" \/ th'[t].idx = th[t].idx + 1
                /\ is_writing' # is_writing =>
                      /\ th[t].pc = "release"
                      /\ OwnBitsSet(t)
                      /\ th'[t].pc \in {"idle", "count"}]_vars

\* A thread holds the lock with both of its two indices set and is about to
\* release it, while another thread, its indices computed, waits for the
\* lock.
C30_Witness ==
    \E t, u \in Threads :
        /\ t # u
        /\ InLockPart(t) /\ th[t].pc = "release"
        /\ Len(th[t].indices) = 2 /\ th[t].indices[1] # th[t].indices[2]
        /\ InLockPart(u) /\ th[u].pc = "yield"
        /\ th[u].indices # <<>>
        /\ ~OwnBitsSet(u)

(***************************************************************************)
(* Bit writes as read-modify-writes (BlockSpec).                           *)
(***************************************************************************)
\* C31: no clobbered bits.  With BitVec::set a load and a store of the
\* block, no store of one insert erases a bit that is set, and every bit of
\* an insert that returned is set.
C31_NoClobberedBits ==
    /\ [](\A v \in ReturnedValues :
            \A i \in IndexSet(k, v, num_bits) :
                BitVecInRange(bit_vec, i) /\ BitVecIndex(bit_vec, i))
    /\ [][\A i \in DOMAIN bit_vec : bit_vec[i] => bit_vec'[i]]_vars

\* A thread has loaded the block, in which a bit is set already, and is
\* about to store it with another bit, while the other thread spins on the
\* lock with an insert of its own.
C31_Witness ==
    \E t, u \in Threads :
        /\ t # u
        /\ th[t].pc = "store"
        /\ \E i \in DOMAIN th[t].block :
              th[t].block[i] /\ i # th[t].indices[th[t].idx]
        /\ th[u].op = "insert" /\ th[u].pc = "yield"

\* C32: the chain of a ReHasher does not depend on k.  The indices a
\* ReHasher of k2 rounds has produced so far, cut to any k1 of them, are the
\* sequence of a ReHasher of k1 rounds for the same value and modulus.
C32_ChainPrefix ==
    \A t \in Threads :
        (/\ strategy.kind = "ReHasher"
         /\ hcall[t].pc \in {"round", "done"}
         /\ hcall[t].modulus > 0) =>
            \A k1 \in 0..Len(hcall[t].out) :
                SubSeq(hcall[t].out, 1, k1)
                    = HashToIndices(ReHasherNew(k1), hcall[t].v, hcall[t].modulus).indices

\* ReHasher::default(), of four rounds, has returned four indices for a
\* modulus of two or more, not all of them equal.
C32_Witness ==
    \E t \in Threads :
        /\ strategy = ReHasherDefault
        /\ hcall[t].pc = "done"
        /\ hcall[t].modulus >= 2
        /\ Len(hcall[t].out) = 4
        /\ \E i, j \in 1..4 : hcall[t].out[i] # hcall[t].out[j]

(***************************************************************************)
(* The parameter calculator (CalcSpec).                                    *)
(***************************************************************************)
\* C33: optimal_k(n, m) depends on m through the integer quotient m / n
\* only: two calls with the same n and the same quotient return the same
\* k; and optimal_k(2000, 28756) is 10.
C33_RoundingOrder ==
    /\ (/\ calc.last.set /\ ~calc.last.panic
        /\ calc.prev.set /\ ~calc.prev.panic
        /\ calc.last.n = calc.prev.n
        /\ calc.last.m \div calc.last.n = calc.prev.m \div calc.prev.n) =>
            calc.last.k = calc.prev.k
    /\ (calc.last.set /\ calc.last.n = 2000 /\ calc.last.m = 28756) =>
            ~calc.last.panic /\ calc.last.k = 10

\* optimal_k(2000, 29999) was called and then optimal_k(2000, 28756): the
\* quotient is 14 both times.
C33_Witness ==
    /\ calc.last.set /\ calc.last.n = 2000 /\ calc.last.m = 28756
    /\ calc.prev.set /\ calc.prev.n = 2000 /\ calc.prev.m = 29999
    /\ calc.last.k = 10

\* C34: the spinlock is never left held: whenever is_writing is true, some
\* thread is inside the critical section of insert (setting its bits or about
\* to store false), also after an insert has aborted on an index >= m.
C34_LockNeverLeftHeld ==
    is_writing => \E t \in Threads : th[t].op = "insert" /\ InCriticalSection(t)

\* C35: an empty filter contains nothing: on every filter a constructor
\* returns (here: with at least one bit), a contains call that returns before
\* the first insert returns false (so every constructible filter has k >= 1).
C35_EmptyContainsNothing ==
    (phase = "constructed" /\ num_bits > 0 /\ Issued = 0) =>
        \A t \in Threads :
            (th[t].op = "contains" /\ th[t].pc = "cret") => ~th[t].res

\* Every index of the i-th insert call of thread t is set.
CallBitsSet(t, i) ==
    \A j \in IndexSet(k, hist[t][i], num_bits) :
        BitVecInRange(bit_vec, j) /\ BitVecIndex(bit_vec, j)

\* C36: on a CountingWLockBloomFilter the counter never runs ahead of the
\* bits: it is at most the number of insert calls that have written all
\* their bits and released the lock, every such call has its bits in the bit
\* field, and a thread about to count holds no lock.
C36_CounterBehindBits ==
    (phase = "constructed" /\ variant = "CountingWLockBloomFilter") =>
        /\ count <= InnerDone(1) + InnerDone(2)
        /\ \A t \in Threads :
              /\ \A i \in 1..InnerDone(t) : CallBitsSet(t, i)
              /\ th[t].pc = "count" => ~InCriticalSection(t) /\ OwnBitsSet(t)

\* One insert has released the lock and is not counted yet, while the other
\* thread holds the lock with one of its two bits written: the counter is 0.
C36_Witness ==
    /\ phase = "constructed" /\ variant = "CountingWLockBloomFilter"
    /\ count = 0
    /\ \E t, u \in Threads :
          /\ t # u
          /\ th[t].pc = "count" /\ th[t].indices # <<>>
          /\ th[u].pc = "set" /\ th[u].idx = 2 /\ is_writing

\* C37: a failed insert changes nothing: when the only insert so far has
\* aborted on an index >= m (on a filter with at least one bit), no bit is
\* set and the insertion counter is still 0.
C37_FailedInsertChangesNothing ==
    \A t \in Threads :
        (/\ phase = "constructed" /\ num_bits > 0 /\ Issued = 1
         /\ th[t].op = "insert" /\ th[t].pc = "panicked"
         /\ \E j \in DOMAIN th[t].indices : th[t].indices[j] >= num_bits) =>
            bit_vec = EmptyBits /\ count = 0
====
